---- MODULE Spec2Model ----
(***************************************************************************)
(* Succinct dictionaries: broadword primitives, the plain BitVector, the   *)
(* Rank9 indexed bit vector and their builders.                            *)
(*                                                                         *)
(* A u64 is modelled as the set of the positions (0..63) of its 1-bits, so *)
(* that shifts, masks and popcounts are computed bit by bit.  Counts and   *)
(* positions (int / uint) are integers; they stay far below 2^31 here.     *)
(* A call that panics (failed assert!, index out of bounds, panic!) yields *)
(* Panic; a call that returns x yields Ok(x).                              *)
(***************************************************************************)
EXTENDS Integers, Sequences, FiniteSets, TLC

\* ------------------------------------------------------------------------
\* Bounds of the explored inputs
\* ------------------------------------------------------------------------
MaxLen == 3        \* longest word vector drawn word by word from Words
MaxRuns == 3       \* most runs of equal words in a run-structured vector
MaxBits == 3       \* most bits pushed one by one into the bit builders
MaxSyms == 3       \* most symbols pushed into a wavelet builder
SmallN == 6        \* select counts 0..SmallN are always tried
Over == 1          \* how far past the valid range a query argument may go

\* ------------------------------------------------------------------------
\* Results of calls
\* ------------------------------------------------------------------------
Ok(x) == [ok |-> TRUE, val |-> x]
Panic == [ok |-> FALSE, val |-> 0]

\* ------------------------------------------------------------------------
\* u64 arithmetic on bit sets
\* ------------------------------------------------------------------------
Zero == {}
AllOnes == 0..63

count_ones(x) == Cardinality(x)
count_zeros(x) == 64 - Cardinality(x)

\* x >> k and x << k on 64 bits
Shr(x, k) == {i - k : i \in {j \in x : j >= k}}
Shl(x, k) == {i + k : i \in {j \in x : j + k <= 63}}

\* (1 << n) - 1 for 0 <= n < 64
LowMask(n) == 0..(n - 1)

\* the u64 holding the number n, 0 <= n < 2^31
Pow2(i) == 2^i

Min(a, b) == IF a < b THEN a ELSE b

FromNat(n) == {i \in 0..30 : (n \div Pow2(i)) % 2 = 1}

\* the number held by a u64 whose bits above bit 30 are clear
RECURSIVE ToNat(_)
ToNat(x) ==
    IF x = {} THEN 0
    ELSE LET i == CHOOSE j \in x : TRUE IN Pow2(i) + ToNat(x \ {i})

\* u64_select_loop decrementing n at every bit, whatever its value
u64_select_loop_anybit(x, bit, n) ==
    IF n \in 1..64 THEN Ok(n) ELSE Panic

\* ------------------------------------------------------------------------
\* dictionary.rs: Select / BitRank / Access on a single u64
\* ------------------------------------------------------------------------
\* u64_select_loop returning the 0-based position idx instead of idx + 1
u64_select_loop_0based(x, bit, n) ==
    LET same == {j \in 0..63 : (j \in x) = bit}
        stop == {idx \in same : Cardinality({j \in same : j <= idx}) = n}
    IN IF stop = {} THEN Panic ELSE Ok(CHOOSE idx \in stop : TRUE)

\* for i in range(0u, 64) { if (x & 1) == bit { n -= 1; if n == 0 { return
\* idx + 1 } }; idx += 1; x >>= 1 } and then the panic.  Iteration idx tests bit idx of
\* the x the loop started with and has decremented n once for every bit of
\* 0..idx equal to `bit`, so it returns at the one idx (if any) holding such a
\* bit with exactly n of them in 0..idx.
u64_select_loop(x, bit, n) ==
    LET same == {j \in 0..63 : (j \in x) = bit}
        stop == {idx \in same : Cardinality({j \in same : j <= idx}) = n}
    IN IF stop = {} THEN Panic ELSE Ok((CHOOSE idx \in stop : TRUE) + 1)

\* u64_select without the early return on n0 == 0
u64_select_nosentinel(x, bit, n0) == u64_select_loop(x, bit, n0)

u64_select(x, bit, n0) ==
    IF n0 = 0 THEN Ok(0) ELSE u64_select_loop(x, bit, n0)

u64_rank1(x, n) ==
    IF n < 64 THEN count_ones(LowMask(n) \cap x) ELSE count_ones(x)

u64_rank0(x, n) ==
    IF n < 64 THEN count_zeros(LowMask(n) \cup x) ELSE count_zeros(x)

\* Access<bool> for u64: the outcomes of get(n).  Below 64 the answer is the
\* constant false; from 64 on the shift is by the width or more, which panics
\* in a build that checks it and shifts by n % 64 in one that does not
u64_get(x, n) ==
    IF n < 64 THEN {Ok(FALSE)}
    ELSE {Panic, Ok((n % 64) \in x)}

u64_rank(x, bit, n) == IF bit THEN u64_rank1(x, n) ELSE u64_rank0(x, n)

\* ------------------------------------------------------------------------
\* bit_vector.rs: the plain bit vector  [bits, buffer]
\* ------------------------------------------------------------------------
BitVector_from_vec(vec, length_in_bits) ==
    [bits |-> length_in_bits, buffer |-> vec]

\* Vec::with_capacity(len) holds no element
BitVector_zero(length_in_bits) ==
    LET len == IF length_in_bits % 64 = 0
               THEN length_in_bits \div 64
               ELSE length_in_bits \div 64 + 1
    IN [bits |-> length_in_bits, buffer |-> <<>>]

BitVector_len(bv) == bv.bits

BitVector_get(bv, n) ==
    IF n \div 64 >= Len(bv.buffer) THEN Panic
    ELSE Ok((n % 64) \in bv.buffer[(n \div 64) + 1])

\* rank += i.rank1(64) over buffer.iter().take(k)
\* (the sum over buffer[lo..hi], taken by halves)
RECURSIVE SumRank1(_, _, _)
SumRank1(buffer, lo, hi) ==
    IF lo > hi THEN 0
    ELSE IF lo = hi THEN u64_rank1(buffer[lo], 64)
    ELSE LET mid == (lo + hi) \div 2 IN
         SumRank1(buffer, lo, mid) + SumRank1(buffer, mid + 1, hi)

SumFullWords(buffer, k) == SumRank1(buffer, 1, Min(k, Len(buffer)))

\* BitVector_rank1 without its assert!
BitVector_rank1_noassert(bv, n) ==
    LET rank == SumFullWords(bv.buffer, n \div 64) IN
    IF n < BitVector_len(bv)
    THEN IF n \div 64 >= Len(bv.buffer) THEN Panic
         ELSE Ok(rank + u64_rank1(bv.buffer[(n \div 64) + 1], n % 64))
    ELSE Ok(rank)

BitVector_rank1(bv, n) ==
    IF ~(n < bv.bits) THEN Panic
    ELSE LET rank == SumFullWords(bv.buffer, n \div 64) IN
         IF n < BitVector_len(bv)
         THEN IF n \div 64 >= Len(bv.buffer) THEN Panic
              ELSE Ok(rank + u64_rank1(bv.buffer[(n \div 64) + 1], n % 64))
         ELSE Ok(rank)

BitVector_rank0(bv, n) ==
    LET r == BitVector_rank1(bv, n) IN
    IF r.ok THEN Ok(n - r.val) ELSE Panic

BitVector_rank(bv, el, n) ==
    IF el THEN BitVector_rank1(bv, n) ELSE BitVector_rank0(bv, n)

\* BitVector_select_step going on to the next word when remain == matches
BitVector_select_step_ge(s, bit, word) ==
    LET matches == IF bit THEN count_ones(word) ELSE count_zeros(word) IN
    IF s.remain >= matches
    THEN [cur |-> word, remain |-> s.remain - matches, idx |-> s.idx + 64,
          brk |-> FALSE]
    ELSE [cur |-> word, remain |-> s.remain, idx |-> s.idx, brk |-> TRUE]

\* the body of the for loop of select on the state (cur, remain, idx); brk
\* records that the body took its break
BitVector_select_step(s, bit, word) ==
    LET matches == IF bit THEN count_ones(word) ELSE count_zeros(word) IN
    IF s.remain > matches
    THEN [cur |-> word, remain |-> s.remain - matches, idx |-> s.idx + 64,
          brk |-> FALSE]
    ELSE [cur |-> word, remain |-> s.remain, idx |-> s.idx, brk |-> TRUE]

\* for word in self.buffer.iter(), over words[lo..hi] in order, taken by halves
RECURSIVE BitVector_select_scan(_, _, _, _, _)
BitVector_select_scan(words, bit, s, lo, hi) ==
    IF s.brk \/ lo > hi THEN s
    ELSE IF lo = hi THEN BitVector_select_step(s, bit, words[lo])
    ELSE LET mid == (lo + hi) \div 2
             s1 == BitVector_select_scan(words, bit, s, lo, mid)
         IN BitVector_select_scan(words, bit, s1, mid + 1, hi)

BitVector_select(bv, bit, n) ==
    IF n = 0 THEN Ok(0)
    ELSE LET s == BitVector_select_scan(bv.buffer, bit,
                      [cur |-> Zero, remain |-> n, idx |-> 0, brk |-> FALSE],
                      1, Len(bv.buffer))
             w == u64_select(s.cur, bit, s.remain)
         IN IF w.ok THEN Ok(s.idx + w.val) ELSE Panic

\* ------------------------------------------------------------------------
\* rank9.rs: Counts, one record  [block_rank, word_ranks]  per basic block
\* ------------------------------------------------------------------------
Mask9 == 0..8      \* 0x1ff

Counts_word_rank(c, bit, i) ==
    IF i = 0 THEN 0
    ELSE LET ones == ToNat(Shr(c.word_ranks, 9 * (i - 1)) \cap Mask9) IN
         IF bit THEN ones ELSE i * 64 - ones

Counts_block_rank(c, bit, block_idx) ==
    IF bit THEN c.block_rank ELSE 64 * 8 * block_idx - c.block_rank

RECURSIVE Counts_select_word_from(_, _, _, _)
Counts_select_word_from(c, bit, n, i) ==
    IF i = 7 THEN 7
    ELSE IF n <= Counts_word_rank(c, bit, i + 1) THEN i
         ELSE Counts_select_word_from(c, bit, n, i + 1)

Counts_select_word(c, bit, n) == Counts_select_word_from(c, bit, n, 0)

\* ------------------------------------------------------------------------
\* rank9.rs: build::CountsBuilder
\*   [length, counts, accum, block_accum, rank_accum]
\* ------------------------------------------------------------------------
CountsBuilder_with_capacity ==
    [length |-> 0, counts |-> <<>>,
     accum |-> [block_rank |-> 0, word_ranks |-> Zero],
     block_accum |-> 0, rank_accum |-> 0]

CountsBuilder_push_block(cb) ==
    [cb EXCEPT !.counts = Append(@, cb.accum),
               !.block_accum = 0,
               !.accum = [block_rank |-> cb.rank_accum, word_ranks |-> Zero]]

\* CountsBuilder_push without the shift of word_ranks by one field
CountsBuilder_push_noshift(cb, word) ==
    LET ones == count_ones(word)
        cb1 == [cb EXCEPT !.rank_accum = @ + ones, !.block_accum = @ + ones]
        cb2 == IF cb1.length % 8 = 7
               THEN CountsBuilder_push_block(cb1)
               ELSE [cb1 EXCEPT !.accum.word_ranks =
                        @ \cup Shl(FromNat(cb1.block_accum), 9 * 6)]
    IN [cb2 EXCEPT !.length = @ + 1]

CountsBuilder_push(cb, word) ==
    LET ones == count_ones(word)
        cb1 == [cb EXCEPT !.rank_accum = @ + ones, !.block_accum = @ + ones]
        cb2 == IF cb1.length % 8 = 7
               THEN CountsBuilder_push_block(cb1)
               ELSE [cb1 EXCEPT !.accum.word_ranks =
                        Shr(@, 9) \cup Shl(FromNat(cb1.block_accum), 9 * 6)]
    IN [cb2 EXCEPT !.length = @ + 1]

RECURSIVE CountsBuilder_finish(_)
CountsBuilder_finish(cb) ==
    IF cb.length % 8 # 0
    THEN CountsBuilder_finish(CountsBuilder_push(cb, Zero))
    ELSE cb.counts

\* for x in v.iter() { builder.push(*x) } up to v[hi], taken by halves: a
\* builder that started empty has pushed v[1..cb.length]
RECURSIVE PushAll(_, _, _)
PushAll(cb, v, hi) ==
    IF cb.length >= hi THEN cb
    ELSE IF cb.length + 1 = hi THEN CountsBuilder_push(cb, v[hi])
    ELSE LET mid == (cb.length + hi) \div 2 IN
         PushAll(PushAll(cb, v, mid), v, hi)

\* ------------------------------------------------------------------------
\* rank9.rs: Rank9  [bits, buffer, counts]
\* ------------------------------------------------------------------------
Rank9_from_vec(v, length_in_bits) ==
    [bits |-> length_in_bits, buffer |-> v,
     counts |-> CountsBuilder_finish(
                    PushAll(CountsBuilder_with_capacity, v, Len(v)))]

Rank9_len(r) == r.bits

Rank9_get(r, n) ==
    IF n \div 64 >= Len(r.buffer) THEN Panic
    ELSE Ok((n % 64) \in r.buffer[(n \div 64) + 1])

\* t >> 60 on a signed 64-bit t with |t| < 2^60, and x & 8 for x in {-1, 0}
Sar60(t) == IF t < 0 THEN -1 ELSE 0
And8(x) == IF x = -1 THEN 8 ELSE 0

\* the second-level lookup of rank1 reading the field one too far
rank1_word_rank_nextfield(counts, block_word) ==
    ToNat(Shr(counts.word_ranks, block_word * 9) \cap Mask9)

\* the second-level lookup of rank1: t = block_word - 1,
\* shift = (t + ((t >> 60) & 8)) * 9, (word_ranks >> shift) & 0x1ff
rank1_word_rank(counts, block_word) ==
    LET t == block_word - 1
        shift == (t + And8(Sar60(t))) * 9
    IN ToNat(Shr(counts.word_ranks, shift) \cap Mask9)

Rank9_rank1(r, n0) ==
    IF ~(n0 <= r.bits) THEN Panic
    ELSE LET n == Min(n0, r.bits)
             word == n \div 64
             bit_idx == n % 64
             block == word \div 8
             block_word == word % 8
         IN IF block >= Len(r.counts) THEN Panic
            ELSE LET counts == r.counts[block + 1]
                     word_rank == rank1_word_rank(counts, block_word)
                 IN IF block_word # 0
                       /\ Counts_word_rank(counts, TRUE, block_word) # word_rank
                    THEN Panic
                    ELSE IF word >= Len(r.buffer) THEN Panic
                    ELSE LET masked == r.buffer[word + 1] \cap LowMask(bit_idx)
                         IN Ok(counts.block_rank + word_rank + count_ones(masked))

Rank9_rank0(r, n) ==
    LET x == Rank9_rank1(r, n) IN
    IF x.ok THEN Ok(n - x.val) ELSE Panic

Rank9_rank(r, el, n) ==
    IF el THEN Rank9_rank1(r, n) ELSE Rank9_rank0(r, n)

\* ------------------------------------------------------------------------
\* rank9.rs: binary_search over [lower, upper).  cmp is the comparator as a
\* function on the indices it can be evaluated at; evaluating it elsewhere
\* is an index out of bounds.
\* ------------------------------------------------------------------------
Ordering(a, b) == IF a < b THEN "Less" ELSE IF a = b THEN "Equal" ELSE "Greater"

SearchOk(i) == [tag |-> "Ok", idx |-> i]
SearchErr(i) == [tag |-> "Err", idx |-> i]
SearchPanic == [tag |-> "Panic", idx |-> 0]

RECURSIVE binary_search_loop(_, _, _, _)
binary_search_loop(cmp, lower, base, lim) ==
    IF ~(lim > lower) THEN SearchErr(base)
    ELSE LET ix == base + (lim \div 2) IN
         IF ix \notin DOMAIN cmp THEN SearchPanic
         ELSE IF cmp[ix] = "Equal" THEN SearchOk(ix)
         ELSE IF cmp[ix] = "Less"
              THEN binary_search_loop(cmp, lower, ix + 1, (lim - 1) \div 2)
              ELSE binary_search_loop(cmp, lower, base, lim \div 2)

binary_search(cmp, lower, upper) == binary_search_loop(cmp, lower, lower, upper)

\* the indices the loop of binary_search hands to cmp
RECURSIVE binary_search_probes(_, _, _, _)
binary_search_probes(cmp, lower, base, lim) ==
    IF ~(lim > lower) THEN {}
    ELSE LET ix == base + (lim \div 2) IN
         IF ix \notin DOMAIN cmp \/ cmp[ix] = "Equal" THEN {ix}
         ELSE IF cmp[ix] = "Less"
              THEN {ix} \cup binary_search_probes(cmp, lower, ix + 1, (lim - 1) \div 2)
              ELSE {ix} \cup binary_search_probes(cmp, lower, base, lim \div 2)

\* the comparator of select_block_hlpr
BlockCmp(r, bit, n) ==
    [idx \in 0..(Len(r.counts) - 1) |->
        Ordering(Counts_block_rank(r.counts[idx + 1], bit, idx), n)]

\* the backward scan stopping on the first block of the run of equal ranks
\* instead of the block before it
RECURSIVE ScanBack_first(_, _, _, _)
ScanBack_first(r, bit, n, block_idx) ==
    IF block_idx = 0 THEN 0
    ELSE IF Counts_block_rank(r.counts[block_idx], bit, block_idx - 1) # n
         THEN block_idx
         ELSE ScanBack_first(r, bit, n, block_idx - 1)

\* for block_idx in range_step_inclusive(start_block, 0, -1)
RECURSIVE ScanBack(_, _, _, _)
ScanBack(r, bit, n, block_idx) ==
    IF block_idx < 0 THEN Len(r.counts) - 1
    ELSE IF Counts_block_rank(r.counts[block_idx + 1], bit, block_idx) # n
         THEN block_idx
         ELSE ScanBack(r, bit, n, block_idx - 1)

\* select_block_hlpr returning the block the search hit, without the backward
\* scan over the blocks of equal rank
select_block_hlpr_noscan(r, bit, n, lower, upper) ==
    LET block_search == binary_search(BlockCmp(r, bit, n), lower, upper) IN
    IF block_search.tag = "Panic" THEN Panic
    ELSE IF block_search.tag = "Err"
         THEN IF block_search.idx = 0 THEN Panic ELSE Ok(block_search.idx - 1)
         ELSE Ok(block_search.idx)

\* Err(0) makes the uint i - 1 underflow: a panic in a checked build, and in a
\* wrapping build 2^64 - 1, which no later index into counts accepts.
select_block_hlpr(r, bit, n, lower, upper) ==
    LET block_search == binary_search(BlockCmp(r, bit, n), lower, upper) IN
    IF block_search.tag = "Panic" THEN Panic
    ELSE IF block_search.tag = "Err"
         THEN IF block_search.idx = 0 THEN Panic ELSE Ok(block_search.idx - 1)
         ELSE Ok(ScanBack(r, bit, n, block_search.idx))

select_block(r, bit, n) == select_block_hlpr(r, bit, n, 0, Len(r.counts))

\* 2^64 - 1, the uint that 0 - 1 wraps to, written as -1: adding one gives 0
\* as in the code, and it is above every index and every bound of a search
UMax == -1

\* select_block_hlpr in a build whose uint arithmetic wraps: Err(0) gives
\* 0 - 1 = 2^64 - 1
select_block_hlpr_wrapping(r, bit, n, lower, upper) ==
    LET block_search == binary_search(BlockCmp(r, bit, n), lower, upper) IN
    IF block_search.tag = "Panic" THEN Panic
    ELSE IF block_search.tag = "Err"
         THEN IF block_search.idx = 0 THEN Ok(UMax)
              ELSE Ok(block_search.idx - 1)
         ELSE Ok(ScanBack(r, bit, n, block_search.idx))

\* the recursion of select_all_blocks, in a "checked" or a "wrapping" build;
\* ns[idx] of an empty ns is out of bounds
RECURSIVE select_all_blocks_rec(_, _, _, _, _, _)
select_all_blocks_rec(build, r, bit, ns, lower, upper) ==
    IF ns = <<>> THEN Panic
    ELSE LET idx == Len(ns) \div 2
             pos == IF build = "wrapping"
                    THEN select_block_hlpr_wrapping(r, bit, ns[idx + 1], lower, upper)
                    ELSE select_block_hlpr(r, bit, ns[idx + 1], lower, upper)
         IN IF ~pos.ok THEN Panic
            ELSE LET left_result ==
                         IF idx > 0
                         THEN IF pos.val = UMax
                              \* the first probe, lower + (2^64 - 1) / 2, is
                              \* out of the bounds of counts
                              THEN Panic
                              ELSE select_all_blocks_rec(build, r, bit,
                                       SubSeq(ns, 1, idx), lower, pos.val)
                         ELSE Ok(<<>>)
                     right_result ==
                         IF idx < Len(ns) - 1
                         THEN select_all_blocks_rec(build, r, bit,
                                  SubSeq(ns, idx + 2, Len(ns)),
                                  pos.val + 1, upper)
                         ELSE Ok(<<>>)
                 IN IF ~left_result.ok \/ ~right_result.ok THEN Panic
                    ELSE Ok(left_result.val \o <<pos.val>> \o right_result.val)

select_all_blocks(build, r, bit, ns) ==
    select_all_blocks_rec(build, r, bit, ns, 0, Len(r.counts))

Rank9_select(r, bit, n) ==
    IF n = 0 THEN Ok(0)
    ELSE LET b == select_block(r, bit, n) IN
         IF ~b.ok THEN Panic
         ELSE LET block_idx == b.val IN
              IF block_idx < 0 \/ block_idx >= Len(r.counts) THEN Panic
              ELSE LET counts == r.counts[block_idx + 1]
                       remaining == n - Counts_block_rank(counts, bit, block_idx)
                       word_idx == Counts_select_word(counts, bit, remaining)
                   IN IF word_idx + 8 * block_idx >= Len(r.buffer) THEN Panic
                      ELSE LET word == r.buffer[word_idx + 8 * block_idx + 1]
                               rem2 == remaining
                                         - Counts_word_rank(counts, bit, word_idx)
                               w == u64_select(word, bit, rem2)
                           IN IF w.ok
                              THEN Ok(block_idx * 64 * 8 + word_idx * 64 + w.val)
                              ELSE Panic

\* ------------------------------------------------------------------------
\* build.rs: VecBuilder [buffer] and BitBuilder [builder, accum, bit, size] new
\* ------------------------------------------------------------------------
VecBuilder_with_capacity == [buffer |-> <<>>]
VecBuilder_push(b, e) == [b EXCEPT !.buffer = Append(@, e)]
VecBuilder_finish(b) == b.buffer

BitBuilder_new(builder) == [builder |-> builder, accum |-> Zero, bit |-> 0, size |-> 0]

\* ------------------------------------------------------------------------
\* rank9.rs: build::WordBuilder [builder, buffer]
\* ------------------------------------------------------------------------
WordBuilder_with_capacity ==
    [builder |-> CountsBuilder_with_capacity, buffer |-> <<>>]

WordBuilder_push(wb, word) ==
    [builder |-> CountsBuilder_push(wb.builder, word),
     buffer |-> Append(wb.buffer, word)]

WordBuilder_finish(wb) ==
    [bits |-> 64 * wb.builder.length,
     buffer |-> wb.buffer,
     counts |-> CountsBuilder_finish(wb.builder)]

\* ------------------------------------------------------------------------
\* build.rs: BitBuilder<B> push and finish; inner names the wrapped word
\* builder B, "WordBuilder" or "VecBuilder"
\* ------------------------------------------------------------------------
Inner_push(inner, b, word) ==
    IF inner = "WordBuilder" THEN WordBuilder_push(b, word)
    ELSE VecBuilder_push(b, word)

Inner_finish(inner, b) ==
    IF inner = "WordBuilder" THEN WordBuilder_finish(b)
    ELSE VecBuilder_finish(b)

\* BitBuilder_push leaving accum as it is after handing a full word on
BitBuilder_push_noreset(inner, bb, element) ==
    LET accum == bb.accum \cup (IF element THEN {bb.bit} ELSE {})
        bit == bb.bit + 1
        size == bb.size + 1
    IN IF bit = 64
       THEN [builder |-> Inner_push(inner, bb.builder, accum),
             accum |-> accum, bit |-> 0, size |-> size]
       ELSE [builder |-> bb.builder, accum |-> accum, bit |-> bit, size |-> size]

BitBuilder_push(inner, bb, element) ==
    LET accum == bb.accum \cup (IF element THEN {bb.bit} ELSE {})
        bit == bb.bit + 1
        size == bb.size + 1
    IN IF bit = 64
       THEN [builder |-> Inner_push(inner, bb.builder, accum),
             accum |-> Zero, bit |-> 0, size |-> size]
       ELSE [builder |-> bb.builder, accum |-> accum, bit |-> bit, size |-> size]

\* Builder::from_iter, for i in iter { self.push(i) } up to iter[hi], taken by
\* halves: a builder that started empty has pushed iter[1..bb.size]
RECURSIVE from_iter_push(_, _, _, _)
from_iter_push(inner, bb, iter, hi) ==
    IF bb.size >= hi THEN bb
    ELSE IF bb.size + 1 = hi THEN BitBuilder_push(inner, bb, iter[hi])
    ELSE LET mid == (bb.size + hi) \div 2 IN
         from_iter_push(inner, from_iter_push(inner, bb, iter, mid), iter, hi)

\* the result is the pair (built value, size in bits)
BitBuilder_finish(inner, bb) ==
    LET builder == IF bb.bit % 64 # 0
                   THEN Inner_push(inner, bb.builder, bb.accum)
                   ELSE bb.builder
    IN <<Inner_finish(inner, builder), bb.size>>

\* ------------------------------------------------------------------------
\* rank9.rs: build::Builder
\* ------------------------------------------------------------------------
Rank9Builder_with_capacity == BitBuilder_new(WordBuilder_with_capacity)

Rank9Builder_push(b, bit) == BitBuilder_push("WordBuilder", b, bit)

Rank9Builder_finish(b) ==
    LET res == BitBuilder_finish("WordBuilder", b) IN
    [res[1] EXCEPT !.bits = res[2]]

\* ------------------------------------------------------------------------
\* bit_vector.rs: build::Builder
\* ------------------------------------------------------------------------
BitVectorBuilder_with_capacity == BitBuilder_new(VecBuilder_with_capacity)

BitVectorBuilder_push(b, bit) == BitBuilder_push("VecBuilder", b, bit)

BitVectorBuilder_finish(b) ==
    LET res == BitBuilder_finish("VecBuilder", b) IN
    [bits |-> res[2], buffer |-> res[1]]

\* ------------------------------------------------------------------------
\* naive.rs: the linear rank oracle, over anything with get and len
\* ------------------------------------------------------------------------
Dict_get(kind, s, i) ==
    IF kind = "Rank9" THEN Rank9_get(s, i) ELSE BitVector_get(s, i)

naive_rank(kind, s, bit, n) ==
    IF ~(n <= s.bits) THEN Panic
    ELSE Ok(Cardinality({i \in 0..(Min(n, s.bits) - 1) :
                            Dict_get(kind, s, i) = Ok(bit)}))

\* ------------------------------------------------------------------------
\* bits.rs: BitIterator [bit, x] over a primitive of SymWidth bits
\* ------------------------------------------------------------------------
SymWidth == 8      \* the symbols are u8

\* !y on a SymWidth-bit primitive
Not(y) == (0..(SymWidth - 1)) \ y

BitIterator_new(x) == [bit |-> SymWidth, x |-> x]

BitIterator_with_width(bits, x) == [bit |-> bits, x |-> x]

\* the item of next(): !(x & 1) == 0, the unary ! binding tighter than ==
BitIterator_item(it) == Not(it.x \cap {0}) = {}

BitIterator_advance(it) == [bit |-> it.bit - 1, x |-> Shr(it.x, 1)]

\* the items of the iterator until next() is None
RECURSIVE BitIterator_items(_)
BitIterator_items(it) ==
    IF it.bit = 0 THEN <<>>
    ELSE <<BitIterator_item(it)>> \o BitIterator_items(BitIterator_advance(it))

bit_iter(sym) == BitIterator_items(BitIterator_new(sym))

\* ------------------------------------------------------------------------
\* tree/binary/mod.rs: a Tree is a function from the paths of its nodes
\* (sequences of branches from the root) to their values
\* ------------------------------------------------------------------------
Tree_singleton(value) == (<<>> :> value)

\* branch(): Some(child) or None
Tree_has_branch(tree, path, branch) == Append(path, branch) \in DOMAIN tree

Cursor_new == [node |-> <<>>]

Cursor_back_to_root(c) == [node |-> <<>>]

\* step(): panics on an empty branch
Cursor_step(tree, c, branch) ==
    IF Tree_has_branch(tree, c.node, branch)
    THEN Ok([node |-> Append(c.node, branch)])
    ELSE Panic

\* ------------------------------------------------------------------------
\* wavelet/mod.rs: Builder [tree, new_bitvector] and Wavelet [tree]; the
\* node kind stands for the new_bitvector function
\* ------------------------------------------------------------------------
bit_to_branch(bit) == IF bit THEN "Right" ELSE "Left"

new_bitvector(kind) ==
    IF kind = "Rank9" THEN Rank9Builder_with_capacity
    ELSE BitVectorBuilder_with_capacity

NodeBuilder_push(kind, b, bit) ==
    IF kind = "Rank9" THEN Rank9Builder_push(b, bit)
    ELSE BitVectorBuilder_push(b, bit)

NodeBuilder_finish(kind, b) ==
    IF kind = "Rank9" THEN Rank9Builder_finish(b)
    ELSE BitVectorBuilder_finish(b)

Node_select(kind, s, bit, n) ==
    IF kind = "Rank9" THEN Rank9_select(s, bit, n)
    ELSE BitVector_select(s, bit, n)

WaveletBuilder_new(kind) == Tree_singleton(new_bitvector(kind))

\* the loop of push putting a fresh node on the branch even when one is there
RECURSIVE WaveletBuilder_push_bits_reset(_, _, _, _)
WaveletBuilder_push_bits_reset(kind, tree, path, bits) ==
    IF bits = <<>> THEN tree
    ELSE LET bit == Head(bits)
             child == Append(path, bit_to_branch(bit))
             t1 == [tree EXCEPT ![path] = NodeBuilder_push(kind, @, bit)]
             t2 == [p \in DOMAIN t1 \cup {child} |->
                       IF p = child THEN new_bitvector(kind) ELSE t1[p]]
         IN WaveletBuilder_push_bits_reset(kind, t2, child, Tail(bits))

\* the loop of push stepping into the child before it pushes the bit
RECURSIVE WaveletBuilder_push_bits_late(_, _, _, _)
WaveletBuilder_push_bits_late(kind, tree, path, bits) ==
    IF bits = <<>> THEN tree
    ELSE LET bit == Head(bits)
             child == Append(path, bit_to_branch(bit))
             t1 == IF child \in DOMAIN tree THEN tree
                   ELSE tree @@ (child :> new_bitvector(kind))
             t2 == [t1 EXCEPT ![child] = NodeBuilder_push(kind, @, bit)]
         IN WaveletBuilder_push_bits_late(kind, t2, child, Tail(bits))

\* the loop of push over the bits of the element, the cursor at path
RECURSIVE WaveletBuilder_push_bits(_, _, _, _)
WaveletBuilder_push_bits(kind, tree, path, bits) ==
    IF bits = <<>> THEN tree
    ELSE LET bit == Head(bits)
             child == Append(path, bit_to_branch(bit))
             t1 == [tree EXCEPT ![path] = NodeBuilder_push(kind, @, bit)]
             t2 == IF child \in DOMAIN t1 THEN t1
                   ELSE t1 @@ (child :> new_bitvector(kind))
         IN WaveletBuilder_push_bits(kind, t2, child, Tail(bits))

WaveletBuilder_push(kind, tree, element) ==
    WaveletBuilder_push_bits(kind, tree, <<>>, bit_iter(element))

\* Tree::map_step with the closure of finish, |b| b.finish(): the same shape,
\* every builder finished
map_step(kind, tree) == [p \in DOMAIN tree |-> NodeBuilder_finish(kind, tree[p])]

WaveletBuilder_finish(kind, tree) == map_step(kind, tree)

\* the descent of select: the stack of (bit, cursor), or Panic
RECURSIVE Wavelet_select_descend(_, _, _, _)
Wavelet_select_descend(tree, cursor, bits, stack) ==
    IF bits = <<>> THEN Ok(stack)
    ELSE LET bit == Head(bits)
             next == Cursor_step(tree, cursor, bit_to_branch(bit))
         IN IF ~Tree_has_branch(tree, cursor.node, bit_to_branch(bit))
            THEN Panic
            ELSE Wavelet_select_descend(tree, next.val, Tail(bits),
                                        Append(stack, <<bit, cursor>>))

\* for (bit, cursor) in stack.into_iter().rev()
RECURSIVE Wavelet_select_ascend(_, _, _, _)
Wavelet_select_ascend(kind, tree, stack, n) ==
    IF stack = <<>> THEN Ok(n)
    ELSE LET top == stack[Len(stack)]
             m == Node_select(kind, tree[top[2].node], top[1], n)
         IN IF ~m.ok THEN Panic
            ELSE Wavelet_select_ascend(kind, tree,
                                       SubSeq(stack, 1, Len(stack) - 1), m.val)

Wavelet_select(kind, tree, sym, n) ==
    IF n = 0 THEN Ok(0)
    ELSE LET stack == Wavelet_select_descend(tree, Cursor_new, bit_iter(sym), <<>>)
         IN IF ~stack.ok THEN Panic
            ELSE Wavelet_select_ascend(kind, tree, stack.val, n)

\* build.rs: buildable::PrimBuilder [prim, bit] over a primitive of SymWidth
\* bits; push fails its debug_assert once SymWidth bits are in
PrimBuilder_new == [prim |-> {}, bit |-> 0]

PrimBuilder_push(b, e) ==
    IF ~(b.bit < SymWidth) THEN Panic
    ELSE Ok([prim |-> b.prim \cup (IF e THEN {b.bit} ELSE {}),
             bit |-> b.bit + 1])

PrimBuilder_finish(b) == b.prim

Node_get(kind, s, n) ==
    IF kind = "Rank9" THEN Rank9_get(s, n) ELSE BitVector_get(s, n)

Node_rank(kind, s, bit, n) ==
    IF kind = "Rank9" THEN Rank9_rank(s, bit, n) ELSE BitVector_rank(s, bit, n)

\* the loop of access, the cursor at `cursor`
RECURSIVE Wavelet_access_loop(_, _, _, _, _)
Wavelet_access_loop(kind, tree, cursor, builder, n) ==
    IF ~Tree_has_branch(tree, cursor.node, "Left")
    THEN Ok(PrimBuilder_finish(builder))
    ELSE LET g == Node_get(kind, tree[cursor.node], n) IN
         IF ~g.ok THEN Panic
         ELSE LET bit == g.val
                  pushed == PrimBuilder_push(builder, bit)
                  branch == bit_to_branch(bit)
              IN IF ~pushed.ok THEN Panic
                 ELSE IF ~Tree_has_branch(tree, cursor.node, branch)
                 THEN Ok(PrimBuilder_finish(pushed.val))
                 ELSE LET r == Node_rank(kind, tree[cursor.node], bit, n) IN
                      IF ~r.ok THEN Panic
                      ELSE Wavelet_access_loop(kind, tree,
                               Cursor_step(tree, cursor, branch).val,
                               pushed.val, r.val)

\* access with a PrimBuilder as the symbol builder
Wavelet_access(kind, tree, n) ==
    Wavelet_access_loop(kind, tree, Cursor_new, PrimBuilder_new, n)

\* the loop of rank over the bits of sym left
RECURSIVE Wavelet_rank_loop(_, _, _, _, _)
Wavelet_rank_loop(kind, tree, cursor, bits, idx) ==
    IF bits = <<>> THEN Ok(idx)
    ELSE LET bit == Head(bits)
             r == Node_rank(kind, tree[cursor.node], bit, idx)
         IN IF ~r.ok THEN Panic
            ELSE IF ~Tree_has_branch(tree, cursor.node, bit_to_branch(bit))
            THEN Ok(0)
            ELSE Wavelet_rank_loop(kind, tree,
                     Cursor_step(tree, cursor, bit_to_branch(bit)).val,
                     Tail(bits), r.val)

Wavelet_rank(kind, tree, sym, idx) ==
    Wavelet_rank_loop(kind, tree, Cursor_new, bit_iter(sym), idx)

\* the loop of symbol_eq over the bits of sym left
RECURSIVE Wavelet_symbol_eq_loop(_, _, _, _, _)
Wavelet_symbol_eq_loop(kind, tree, cursor, bits, n) ==
    IF bits = <<>> THEN Ok(TRUE)
    ELSE LET bit == Head(bits)
             branch == bit_to_branch(bit)
         IN IF ~Tree_has_branch(tree, cursor.node, branch) THEN Ok(FALSE)
            ELSE LET g == Node_get(kind, tree[cursor.node], n) IN
                 IF ~g.ok THEN Panic
                 ELSE IF bit # g.val THEN Ok(FALSE)
                 ELSE LET r == Node_rank(kind, tree[cursor.node], bit, n) IN
                      IF ~r.ok THEN Panic
                      ELSE Wavelet_symbol_eq_loop(kind, tree,
                               Cursor_step(tree, cursor, branch).val,
                               Tail(bits), r.val)

Wavelet_symbol_eq(kind, tree, sym, n) ==
    Wavelet_symbol_eq_loop(kind, tree, Cursor_new, bit_iter(sym), n)

\* Builder::from_iter on the wavelet builder, for i in iter { self.push(i) }
\* up to iter[hi], taken by halves: the root builder of a builder that started
\* empty holds one bit for each symbol pushed
RECURSIVE wavelet_from_iter_push(_, _, _, _)
wavelet_from_iter_push(kind, tree, iter, hi) ==
    IF tree[<<>>].size >= hi THEN tree
    ELSE IF tree[<<>>].size + 1 = hi THEN WaveletBuilder_push(kind, tree, iter[hi])
    ELSE LET mid == (tree[<<>>].size + hi) \div 2 IN
         wavelet_from_iter_push(kind,
             wavelet_from_iter_push(kind, tree, iter, mid), iter, hi)

\* ------------------------------------------------------------------------
\* The explored inputs
\* ------------------------------------------------------------------------
W0110 == {1, 2}        \* 0b0110
W1001 == {0, 3}        \* 0b1001
W1100 == {2, 3}        \* 0b1100

W0101 == {0, 2}        \* 0x5

Words == {W0110, W1001, W1100}
U64Words == Words \cup {Zero, AllOnes, W0101}
RunWords == {Zero, AllOnes}
RunLens == {1, 8}
\* positions within a word at which rank is queried, and counts modulo 64 at
\* which select is queried: dense up to one basic block, the word boundaries
\* only beyond it
Offsets(bits) == IF bits <= 512 THEN {0, 1, 2, 3, 4, 63} ELSE {0, 63}
Residues(total) == IF total <= 512 THEN {0, 1, 2, 62, 63} ELSE {0, 1}

\* the vector of the unit tests of dictionary.rs
TestVec == <<W0110, W1001, W1100>>

\* u8 symbols 1, 2, 4 and 7
Syms == {{0}, {1}, {2}, {0, 1, 2}}

RECURSIVE SeqsUpTo(_, _)
SeqsUpTo(S, n) ==
    IF n = 0 THEN {<<>>}
    ELSE LET shorter == SeqsUpTo(S, n - 1) IN
         shorter \cup {Append(q, x) : q \in shorter, x \in S}

Repeat(w, k) == [i \in 1..k |-> w]

RECURSIVE Flatten(_)
Flatten(runs) ==
    IF runs = <<>> THEN <<>>
    ELSE Repeat(Head(runs)[1], Head(runs)[2]) \o Flatten(Tail(runs))

ShortVectors == SeqsUpTo(Words, MaxLen)
RunVectors == {Flatten(runs) : runs \in SeqsUpTo(RunWords \X RunLens, MaxRuns)}
Vectors == ShortVectors \cup RunVectors

\* number of bit-valued positions among [0, n) of a buffer, n within it
RECURSIVE CountRange(_, _, _, _)
CountRange(buffer, bit, lo, hi) ==
    IF lo > hi THEN 0
    ELSE IF lo = hi
         THEN IF bit THEN Cardinality(buffer[lo]) ELSE 64 - Cardinality(buffer[lo])
    ELSE LET mid == (lo + hi) \div 2 IN
         CountRange(buffer, bit, lo, mid) + CountRange(buffer, bit, mid + 1, hi)

CountWords(buffer, bit, k) == CountRange(buffer, bit, 1, k)

CountIn(buffer, bit, n) ==
    CountWords(buffer, bit, n \div 64)
      + Cardinality({i \in 0..((n % 64) - 1) :
                       (i \in buffer[(n \div 64) + 1]) = bit})

RankArgs(bits) ==
    {i \in 0..(bits + Over) : i % 64 \in Offsets(bits) \/ i >= bits - 1}

SelectArgs(total) ==
    {n \in 0..(total + Over) :
        n <= SmallN \/ n % 64 \in Residues(total) \/ n >= total - 1}

\* ------------------------------------------------------------------------
\* State.  A run builds one thing and then queries it: either one bit stream
\* is fed to a Rank9 builder and a BitVector builder (or one word vector to
\* both from_vec), or a stream of symbols is fed to a wavelet builder.  The
\* word-level queries need no structure and start from the initial state.
\* ------------------------------------------------------------------------
VARIABLES
    r9b,       \* rank9::Builder under construction
    bvb,       \* bit_vector::Builder under construction
    fed,       \* the bits given to the two builders so far, in order
    built,     \* TRUE once rank9 and bv exist
    origin,    \* what made them: "none", "builder", "from_vec" or "zero"
    rank9,     \* the Rank9
    bv,        \* the BitVector
    wkind,     \* "none", or the kind of node the wavelet builder was given
    wbuilder,  \* wavelet::Builder: the tree of node builders
    wsyms,     \* the symbols pushed into the wavelet builder so far
    wbuilt,    \* TRUE once wavelet exists
    wavelet,   \* the Wavelet: the tree of node bit vectors
    ctree,     \* a Tree navigated on its own, <<>> before it is made
    cursor,    \* the cursor on ctree: [kind, node], kind "none" without one
    walked,    \* the branches stepped since new() or the last back_to_root()
    last       \* the query in progress and its outcome, NoQuery when idle

dvars == <<r9b, bvb, fed, built, origin, rank9, bv>>
wvars == <<wkind, wbuilder, wsyms, wbuilt, wavelet>>
cvars == <<ctree, cursor, walked>>
vars == <<r9b, bvb, fed, built, origin, rank9, bv, wkind, wbuilder, wsyms,
          wbuilt, wavelet, ctree, cursor, walked, last>>

NoQuery ==
    [op |-> "none", kind |-> "none", el |-> FALSE, x |-> Zero, n |-> 0,
     out |-> Ok(0)]

Init ==
    /\ r9b = Rank9Builder_with_capacity
    /\ bvb = BitVectorBuilder_with_capacity
    /\ fed = <<>>
    /\ built = FALSE
    /\ origin = "none"
    /\ rank9 = Rank9_from_vec(<<>>, 0)
    /\ bv = BitVector_from_vec(<<>>, 0)
    /\ wkind = "none"
    /\ wbuilder = <<>>
    /\ wsyms = <<>>
    /\ wbuilt = FALSE
    /\ wavelet = <<>>
    /\ ctree = <<>>
    /\ cursor = [kind |-> "none", node |-> <<>>]
    /\ walked = <<>>
    /\ last = NoQuery

NoBits == ~built /\ r9b.size = 0
NoWavelet == wkind = "none"

\* Builder::push on the pair of builders
Push(bit) ==
    /\ ~built /\ NoWavelet
    /\ r9b.size < MaxBits
    /\ r9b' = Rank9Builder_push(r9b, bit)
    /\ bvb' = BitVectorBuilder_push(bvb, bit)
    /\ fed' = Append(fed, bit)
    /\ UNCHANGED <<cvars, built, origin, rank9, bv, wvars, last>>

\* Builder::finish on the pair of builders
Finish ==
    /\ ~built /\ NoWavelet
    /\ rank9' = Rank9Builder_finish(r9b)
    /\ bv' = BitVectorBuilder_finish(bvb)
    /\ built' = TRUE
    /\ origin' = "builder"
    /\ UNCHANGED <<cvars, r9b, bvb, fed, wvars, last>>

\* Rank9::from_vec and BitVector::from_vec on whole words, bits = 64 * |v|
FromVec(v) ==
    /\ NoBits /\ NoWavelet
    /\ rank9' = Rank9_from_vec(v, 64 * Len(v))
    /\ bv' = BitVector_from_vec(v, 64 * Len(v))
    /\ built' = TRUE
    /\ origin' = "from_vec"
    /\ UNCHANGED <<cvars, r9b, bvb, fed, wvars, last>>

Rank9Rank(el, i) ==
    /\ built
    /\ last.op = "none"
    /\ last' = [op |-> "rank", kind |-> "Rank9", el |-> el, x |-> Zero,
                n |-> i, out |-> Rank9_rank(rank9, el, i)]
    /\ UNCHANGED <<cvars, dvars, wvars>>

BitVectorRank(el, i) ==
    /\ built
    /\ last.op = "none"
    /\ last' = [op |-> "rank", kind |-> "BitVector", el |-> el, x |-> Zero,
                n |-> i, out |-> BitVector_rank(bv, el, i)]
    /\ UNCHANGED <<cvars, dvars, wvars>>

Rank9Select(bit, n) ==
    /\ built
    /\ last.op = "none"
    /\ last' = [op |-> "select", kind |-> "Rank9", el |-> bit, x |-> Zero,
                n |-> n, out |-> Rank9_select(rank9, bit, n)]
    /\ UNCHANGED <<cvars, dvars, wvars>>

BitVectorSelect(bit, n) ==
    /\ built
    /\ last.op = "none"
    /\ last' = [op |-> "select", kind |-> "BitVector", el |-> bit, x |-> Zero,
                n |-> n, out |-> BitVector_select(bv, bit, n)]
    /\ UNCHANGED <<cvars, dvars, wvars>>

\* Select<bool> for u64 on the word x
U64Select(x, bit, n) ==
    /\ NoBits /\ NoWavelet
    /\ last.op = "none"
    /\ last' = [op |-> "select", kind |-> "u64", el |-> bit, x |-> x,
                n |-> n, out |-> u64_select(x, bit, n)]
    /\ UNCHANGED <<cvars, dvars, wvars>>

\* wavelet::Builder::new(new_bitvector)
WaveletNew(kind) ==
    /\ NoBits /\ NoWavelet
    /\ last.op = "none"
    /\ wkind' = kind
    /\ wbuilder' = WaveletBuilder_new(kind)
    /\ UNCHANGED <<cvars, dvars, wsyms, wbuilt, wavelet, last>>

\* wavelet::Builder::push
WaveletPush(sym) ==
    /\ wkind # "none" /\ ~wbuilt
    /\ Len(wsyms) < MaxSyms
    /\ wbuilder' = WaveletBuilder_push(wkind, wbuilder, sym)
    /\ wsyms' = Append(wsyms, sym)
    /\ UNCHANGED <<cvars, dvars, wkind, wbuilt, wavelet, last>>

\* wavelet::Builder::finish
WaveletFinish ==
    /\ wkind # "none" /\ ~wbuilt
    /\ wavelet' = WaveletBuilder_finish(wkind, wbuilder)
    /\ wbuilt' = TRUE
    /\ UNCHANGED <<cvars, dvars, wkind, wbuilder, wsyms, last>>

WaveletSelect(sym, n) ==
    /\ wbuilt
    /\ last.op = "none"
    /\ last' = [op |-> "select", kind |-> "Wavelet", el |-> sym, x |-> Zero,
                n |-> n, out |-> Wavelet_select(wkind, wavelet, sym, n)]
    /\ UNCHANGED <<cvars, dvars, wvars>>

\* the caller takes the outcome; the structures are immutable
Return ==
    /\ last.op # "none"
    /\ last' = NoQuery
    /\ UNCHANGED <<cvars, dvars, wvars>>

\* the arguments tried
Occurrences(S, sym) == Cardinality({i \in 1..Len(S) : S[i] = sym})

\* (a query is asked only when none is in progress: the guard of the actions,
\* repeated here so that the arguments are not drawn up in vain)
Rank9RankQ ==
    /\ last.op = "none"
    /\ \E el \in BOOLEAN : \E i \in RankArgs(rank9.bits) : Rank9Rank(el, i)

BitVectorRankQ ==
    /\ last.op = "none"
    /\ \E el \in BOOLEAN : \E i \in RankArgs(bv.bits) : BitVectorRank(el, i)

Rank9SelectQ ==
    /\ last.op = "none"
    /\ \E bit \in BOOLEAN :
          \E n \in SelectArgs(CountIn(rank9.buffer, bit, rank9.bits)) :
             Rank9Select(bit, n)

BitVectorSelectQ ==
    /\ last.op = "none"
    /\ \E bit \in BOOLEAN :
          \E n \in SelectArgs(CountIn(bv.buffer, bit, bv.bits)) :
             BitVectorSelect(bit, n)

U64SelectQ ==
    \E x \in U64Words : \E bit \in BOOLEAN :
       \E n \in SelectArgs(IF bit THEN count_ones(x) ELSE count_zeros(x)) :
          U64Select(x, bit, n)

WaveletSelectQ ==
    \E sym \in Syms : \E n \in 0..(Occurrences(wsyms, sym) + Over) :
       WaveletSelect(sym, n)

\* Bit vectors: building, rank and select on Rank9 and BitVector
Next ==
    \/ \E bit \in BOOLEAN : Push(bit)
    \/ Finish
    \/ \E v \in Vectors : FromVec(v)
    \/ Rank9RankQ
    \/ BitVectorRankQ
    \/ Rank9SelectQ
    \/ BitVectorSelectQ
    \/ Return

Spec == Init /\ [][Next]_vars

\* Select at every level: word, BitVector, Rank9, wavelet tree
NextSelect ==
    \/ \E bit \in BOOLEAN : Push(bit)
    \/ Finish
    \/ \E v \in Vectors : FromVec(v)
    \/ \E kind \in {"BitVector", "Rank9"} : WaveletNew(kind)
    \/ \E sym \in Syms : WaveletPush(sym)
    \/ WaveletFinish
    \/ U64SelectQ
    \/ BitVectorSelectQ
    \/ Rank9SelectQ
    \/ WaveletSelectQ
    \/ Return

SpecSelect == Init /\ [][NextSelect]_vars

TypeOK ==
    /\ built \in BOOLEAN
    /\ last.out.ok \in BOOLEAN

\* ------------------------------------------------------------------------
\* Properties
\* ------------------------------------------------------------------------
BitAt(buffer, i) == (i % 64) \in buffer[(i \div 64) + 1]

\* q is one past the position of the n-th bit-valued bit of s
IsNth(s, bit, n, q) ==
    /\ q \in 1..s.bits
    /\ BitAt(s.buffer, q - 1) = bit
    /\ CountIn(s.buffer, bit, q) = n


IsQuery(op, kind) == last.op = op /\ last.kind = kind

\* C1: on every Rank9, rank(b, i) for every 0 <= i <= bits (i = bits included)
\* completes and equals the naive linear rank of b in [0, i).
C1_Rank9RankIsNaive ==
    (IsQuery("rank", "Rank9") /\ last.n <= rank9.bits)
        => last.out = naive_rank("Rank9", rank9, last.el, last.n)

\* C2: on every BitVector, rank1(i) for every 0 <= i <= bits is accepted and
\* is the number of 1-bits in [0, i), and rank0(i) = i - rank1(i).
C2_BitVectorRankInclusive ==
    (IsQuery("rank", "BitVector") /\ last.n <= bv.bits)
        => last.out = Ok(CountIn(bv.buffer, last.el, last.n))

\* C3: on a Rank9 over a non-empty word vector, select(b, n) for
\* 1 <= n <= (number of b bits) is p + 1, p the position of the n-th b bit.
C3_Rank9SelectIsNth ==
    (/\ IsQuery("select", "Rank9")
     /\ Len(rank9.buffer) > 0
     /\ 1 <= last.n
     /\ last.n <= CountIn(rank9.buffer, last.el, rank9.bits))
        => last.out.ok /\ IsNth(rank9, last.el, last.n, last.out.val)

\* the selected bit lies in the third block or later and the two blocks
\* before it hold no such bit
C3_Witness ==
    /\ IsQuery("select", "Rank9")
    /\ last.n >= 1
    /\ last.out.ok
    /\ last.out.val > 2 * 512
    /\ CountIn(rank9.buffer, last.el, 2 * 512)
         = CountIn(rank9.buffer, last.el, 512)
    /\ IsNth(rank9, last.el, last.n, last.out.val)

\* C4: on a BitVector over a non-empty word vector, select(b, n) for
\* 1 <= n <= (number of b bits) is p + 1, p the position of the n-th b bit.
C4_BitVectorSelectIsNth ==
    (/\ IsQuery("select", "BitVector")
     /\ Len(bv.buffer) > 0
     /\ 1 <= last.n
     /\ last.n <= CountIn(bv.buffer, last.el, bv.bits))
        => last.out.ok /\ IsNth(bv, last.el, last.n, last.out.val)

C4_Witness ==
    /\ IsQuery("select", "BitVector")
    /\ last.n >= 1
    /\ last.out.ok
    /\ last.out.val > 64
    /\ IsNth(bv, last.el, last.n, last.out.val)

\* C5: for BitVector and Rank9 and 1 <= n <= (number of b bits),
\* rank(b, select(b, n)) completes and equals n, and get(select(b, n) - 1) = b.
C5_RankSelectInverse ==
    /\ (/\ IsQuery("select", "Rank9")
        /\ 1 <= last.n
        /\ last.n <= CountIn(rank9.buffer, last.el, rank9.bits))
          => /\ last.out.ok
             /\ Rank9_rank(rank9, last.el, last.out.val) = Ok(last.n)
             /\ Rank9_get(rank9, last.out.val - 1) = Ok(last.el)
    /\ (/\ IsQuery("select", "BitVector")
        /\ 1 <= last.n
        /\ last.n <= CountIn(bv.buffer, last.el, bv.bits))
          => /\ last.out.ok
             /\ BitVector_rank(bv, last.el, last.out.val) = Ok(last.n)
             /\ BitVector_get(bv, last.out.val - 1) = Ok(last.el)

\* C6 as stated: on [0b0110, 0b1001, 0b1100] (192 bits) both structures give
\* select(true, 1) = 2, select(true, 2) = 3, select(true, 3) = 65,
\* select(true, 6) = 131, select(false, 1) = 1, select(false, 62) = 64.
OnTestVec == built /\ rank9.buffer = TestVec /\ bv.buffer = TestVec
                   /\ rank9.bits = 192 /\ bv.bits = 192

SelectTable(last6) ==
    /\ last.op = "select" /\ OnTestVec =>
        /\ (last.el /\ last.n = 1) => last.out = Ok(2)
        /\ (last.el /\ last.n = 2) => last.out = Ok(3)
        /\ (last.el /\ last.n = 3) => last.out = Ok(65)
        /\ (last.el /\ last.n = 6) => last.out = Ok(last6)
        /\ (~last.el /\ last.n = 1) => last.out = Ok(1)
        /\ (~last.el /\ last.n = 62) => last.out = Ok(64)

C6_AsStated == SelectTable(131)

\* C6 amended: as above, but select(true, 6) = 132.
C6_SelectTable == SelectTable(132)

C6_Witness ==
    /\ OnTestVec
    /\ IsQuery("select", "Rank9")
    /\ last.el /\ last.n = 6
    /\ last.out = Ok(132)

\* C8: BitVector.select(b, n) with n above the number of b bits in [0, bits)
\* fails.
C8_BitVectorSelectFails ==
    (IsQuery("select", "BitVector")
     /\ last.n > CountIn(bv.buffer, last.el, bv.bits))
        => ~last.out.ok

\* C9: Rank9.select(b, n) with n above the number of b bits in [0, bits)
\* fails; the padding after position bits is never selected.
C9_Rank9SelectFails ==
    (IsQuery("select", "Rank9")
     /\ last.n > CountIn(rank9.buffer, last.el, rank9.bits))
        => ~last.out.ok

\* C10: on BitVector and Rank9, rank1(i) and rank0(i) with i > bits fail.
C10_RankPastEndFails ==
    /\ (IsQuery("rank", "Rank9") /\ last.n > rank9.bits) => ~last.out.ok
    /\ (IsQuery("rank", "BitVector") /\ last.n > bv.bits) => ~last.out.ok

C10_Witness ==
    /\ IsQuery("rank", "BitVector")
    /\ bv.bits > 0
    /\ last.n > bv.bits
    /\ ~last.out.ok

\* C7: select with count 0 is the sentinel 0 on a word, a BitVector, a Rank9
\* and a wavelet tree, for every bit or symbol, occurring or not.
C7_SelectZeroIsZero ==
    (last.op = "select" /\ last.n = 0) => last.out = Ok(0)

\* select(sym, 0) on a non-empty wavelet tree for a symbol that was not pushed
C7_Witness ==
    /\ IsQuery("select", "Wavelet")
    /\ last.n = 0
    /\ Len(wsyms) > 0
    /\ Occurrences(wsyms, last.el) = 0
    /\ last.out = Ok(0)

\* ------------------------------------------------------------------------
\* The 64-bit word on its own: Rank<bool>, BitRank and Select<bool> for u64
\* ------------------------------------------------------------------------
\* Rank<bool> for u64 on the word x
U64Rank(x, bit, n) ==
    /\ NoBits /\ NoWavelet
    /\ last.op = "none"
    /\ last' = [op |-> "rank", kind |-> "u64", el |-> bit, x |-> x,
                n |-> n, out |-> Ok(u64_rank(x, bit, n))]
    /\ UNCHANGED <<cvars, dvars, wvars>>

U64RankQ ==
    \E x \in U64Words : \E bit \in BOOLEAN : \E n \in 0..64 : U64Rank(x, bit, n)

\* the u8 symbols of the unit tests of wavelet/mod.rs
TestSyms ==
    <<FromNat(4), FromNat(6), FromNat(2), FromNat(7), FromNat(5), FromNat(1),
      FromNat(6), FromNat(2)>>

\* the symbols asked about: those pushed, and 0
AskSyms == Syms \cup {TestSyms[i] : i \in 1..Len(TestSyms)} \cup {Zero}

\* BitIter for u8: the bits of x collected from x.bit_iter()
BitIter(x) ==
    /\ NoBits /\ NoWavelet
    /\ last.op = "none"
    /\ last' = [op |-> "bit_iter", kind |-> "u8", el |-> FALSE, x |-> x,
                n |-> 0, out |-> Ok(bit_iter(x))]
    /\ UNCHANGED <<cvars, dvars, wvars>>

BitIterQ == \E x \in AskSyms \cup {0..(SymWidth - 1)} : BitIter(x)

\* Access<bool> for u64 on the word x
U64Get(x, n) ==
    /\ NoBits /\ NoWavelet
    /\ last.op = "none"
    /\ \E out \in u64_get(x, n) :
          last' = [op |-> "get", kind |-> "u64", el |-> FALSE, x |-> x,
                   n |-> n, out |-> out]
    /\ UNCHANGED <<cvars, dvars, wvars>>

U64GetQ == \E x \in U64Words : \E n \in {0, 1, 2, 3, 62, 63, 64} : U64Get(x, n)

NextWord ==
    \/ U64RankQ
    \/ U64GetQ
    \/ U64SelectQ
    \/ BitIterQ
    \/ Return

SpecWord == Init /\ [][NextWord]_vars

\* number of bit-valued bits among the lowest n bits of the word x
WordCount(x, bit, n) == Cardinality({i \in 0..(n - 1) : (i \in x) = bit})

\* C11: for every word x and 0 <= n <= 64, rank0(x, n) = n - rank1(x, n), the
\* number of 0-bits among the lowest n bits of x.
C11_WordRank0 ==
    (IsQuery("rank", "u64") /\ ~last.el /\ last.n \in 0..64)
        => /\ last.out = Ok(last.n - u64_rank1(last.x, last.n))
           /\ last.out = Ok(WordCount(last.x, FALSE, last.n))

\* C12 as stated: select(x, b, n) for 1 <= n <= (number of b bits of x) is the
\* 0-based position p of the n-th b bit, and fails for larger n.
C12_AsStated ==
    (IsQuery("select", "u64") /\ last.n >= 1)
        => IF last.n <= WordCount(last.x, last.el, 64)
           THEN /\ last.out.ok
                /\ last.out.val \in 0..63
                /\ (last.out.val \in last.x) = last.el
                /\ WordCount(last.x, last.el, last.out.val + 1) = last.n
           ELSE ~last.out.ok

\* C12: select(x, b, n) for 1 <= n <= (number of b bits of x) is p + 1, p the
\* 0-based position of the n-th b bit (0x5: 1 and 3), and fails for larger n.
C12_WordSelectIsNth ==
    (IsQuery("select", "u64") /\ last.n >= 1)
        => IF last.n <= WordCount(last.x, last.el, 64)
           THEN /\ last.out.ok
                /\ last.out.val \in 1..64
                /\ ((last.out.val - 1) \in last.x) = last.el
                /\ WordCount(last.x, last.el, last.out.val) = last.n
           ELSE ~last.out.ok

\* select(0x5, true, 2) has returned 3
C12_Witness ==
    /\ IsQuery("select", "u64")
    /\ last.x = W0101 /\ last.el /\ last.n = 2
    /\ last.out = Ok(3)

\* ------------------------------------------------------------------------
\* Building a BitVector: bit by bit, from an iterator of bits, or zero(n),
\* and reading it back with get
\* ------------------------------------------------------------------------
BitRunLens == {1, 63}
ZeroLens == {0, 1, 64, 65}

\* the bit sequences given to from_iter: up to MaxRuns runs of equal bits
BitStreams ==
    {Flatten(runs) : runs \in SeqsUpTo(BOOLEAN \X BitRunLens, MaxRuns)}

\* Builder::from_iter on the pair of builders
FromIter(bs) ==
    /\ NoBits /\ NoWavelet
    /\ rank9' = Rank9Builder_finish(from_iter_push("WordBuilder", r9b, bs, Len(bs)))
    /\ bv' = BitVectorBuilder_finish(from_iter_push("VecBuilder", bvb, bs, Len(bs)))
    /\ fed' = bs
    /\ built' = TRUE
    /\ origin' = "builder"
    /\ UNCHANGED <<cvars, r9b, bvb, wvars, last>>

\* BitVector::zero
ZeroVec(n) ==
    /\ NoBits /\ NoWavelet
    /\ bv' = BitVector_zero(n)
    /\ built' = TRUE
    /\ origin' = "zero"
    /\ UNCHANGED <<cvars, r9b, bvb, fed, rank9, wvars, last>>

\* Access<bool> for BitVector
BitVectorGet(i) ==
    /\ built
    /\ last.op = "none"
    /\ last' = [op |-> "get", kind |-> "BitVector", el |-> FALSE, x |-> Zero,
                n |-> i, out |-> BitVector_get(bv, i)]
    /\ UNCHANGED <<cvars, dvars, wvars>>

GetArgs(bits) ==
    {i \in 0..(bits - 1) : i % 64 \in {0, 1, 62, 63} \/ i >= bits - 2}

BitVectorGetQ == \E i \in GetArgs(bv.bits) : BitVectorGet(i)

NextBuild ==
    \/ \E bit \in BOOLEAN : Push(bit)
    \/ Finish
    \/ \E bs \in BitStreams : FromIter(bs)
    \/ \E n \in ZeroLens : ZeroVec(n)
    \/ BitVectorGetQ
    \/ Return

SpecBuild == Init /\ [][NextBuild]_vars

\* C13: the BitVector built from the bits bs has len() = |bs| and get(i) =
\* bs[i] for every 0 <= i < |bs|, whatever |bs| modulo 64.
C13_BuilderRoundTrip ==
    /\ (built /\ origin = "builder") => BitVector_len(bv) = Len(fed)
    /\ (IsQuery("get", "BitVector") /\ origin = "builder" /\ last.n < Len(fed))
          => last.out = Ok(fed[last.n + 1])

\* a 1-bit read back from the second word of a vector that ends inside it
C13_Witness ==
    /\ IsQuery("get", "BitVector") /\ origin = "builder"
    /\ Len(fed) % 64 # 0
    /\ last.n >= 64
    /\ fed[last.n + 1]
    /\ last.out = Ok(TRUE)

\* C14: a BitVector from zero(n) or from the bit builder has ceil(bits / 64)
\* words and no 1-bit at an index >= bits in its last word.
C14_Layout ==
    (built /\ origin \in {"builder", "zero"})
        => /\ Len(bv.buffer) = (bv.bits + 63) \div 64
           /\ \A i \in 0..63 :
                 (Len(bv.buffer) > 0 /\ 64 * (Len(bv.buffer) - 1) + i >= bv.bits)
                    => i \notin bv.buffer[Len(bv.buffer)]

\* ------------------------------------------------------------------------
\* Bit iteration (checked under SpecWord)
\* ------------------------------------------------------------------------
\* C19: bit iteration over a w-bit x yields exactly w bits, the k-th of them
\* (k from 0) being bit w - 1 - k of x: most significant bit first.
C19_BitIterMsbFirst ==
    IsQuery("bit_iter", "u8")
        => /\ Len(last.out.val) = SymWidth
           /\ \A k \in 0..(SymWidth - 1) :
                 last.out.val[k + 1] = ((SymWidth - 1 - k) \in last.x)

\* C28: BitIterator::new(x) over a w-bit x yields exactly w bits and ends, the
\* k-th of them (k from 0) being bit k of x, least significant bit first; so
\* another value of x yields another sequence.
C28_BitIterLsbFirst ==
    IsQuery("bit_iter", "u8")
        => /\ Len(last.out.val) = SymWidth
           /\ \A k \in 0..(SymWidth - 1) : last.out.val[k + 1] = (k \in last.x)
           /\ \A y \in AskSyms : y # last.x => bit_iter(y) # last.out.val

\* C30: for every word x and n in 0..63, get(n) of Access<bool> for u64 is
\* true exactly when bit n of x is 1.
C30_WordGetIsBit ==
    (IsQuery("get", "u64") /\ last.n \in 0..63)
        => last.out = Ok(last.n \in last.x)

\* ------------------------------------------------------------------------
\* The wavelet tree: building, access, rank, symbol_eq and select
\* ------------------------------------------------------------------------
\* Builder::from_iter on a new wavelet builder
WaveletFromIter(kind, S) ==
    /\ NoBits /\ NoWavelet
    /\ last.op = "none"
    /\ wkind' = kind
    /\ wbuilder' = wavelet_from_iter_push(kind, WaveletBuilder_new(kind), S, Len(S))
    /\ wavelet' = WaveletBuilder_finish(kind, wbuilder')
    /\ wsyms' = S
    /\ wbuilt' = TRUE
    /\ UNCHANGED <<cvars, dvars, last>>

WaveletAccess(i) ==
    /\ wbuilt
    /\ last.op = "none"
    /\ last' = [op |-> "access", kind |-> "Wavelet", el |-> Zero, x |-> Zero,
                n |-> i, out |-> Wavelet_access(wkind, wavelet, i)]
    /\ UNCHANGED <<cvars, dvars, wvars>>

WaveletRank(sym, i) ==
    /\ wbuilt
    /\ last.op = "none"
    /\ last' = [op |-> "rank", kind |-> "Wavelet", el |-> sym, x |-> Zero,
                n |-> i, out |-> Wavelet_rank(wkind, wavelet, sym, i)]
    /\ UNCHANGED <<cvars, dvars, wvars>>

WaveletSymbolEq(sym, i) ==
    /\ wbuilt
    /\ last.op = "none"
    /\ last' = [op |-> "symbol_eq", kind |-> "Wavelet", el |-> sym, x |-> Zero,
                n |-> i, out |-> Wavelet_symbol_eq(wkind, wavelet, sym, i)]
    /\ UNCHANGED <<cvars, dvars, wvars>>

\* the symbols asked about on a tree over S
QuerySyms(S) == IF S = TestSyms THEN AskSyms ELSE Syms \cup {Zero}

WaveletAccessQ == \E i \in 0..(Len(wsyms) - 1) : WaveletAccess(i)

WaveletRankQ ==
    \E sym \in QuerySyms(wsyms) : \E i \in 0..Len(wsyms) : WaveletRank(sym, i)

WaveletSymbolEqQ ==
    \E sym \in QuerySyms(wsyms) : \E i \in 0..(Len(wsyms) - 1) :
       WaveletSymbolEq(sym, i)

WaveletSelectAnyQ ==
    \E sym \in QuerySyms(wsyms) :
       \E n \in 0..(Occurrences(wsyms, sym) + Over) : WaveletSelect(sym, n)

NextWavelet ==
    \/ \E kind \in {"BitVector", "Rank9"} : WaveletNew(kind)
    \/ \E sym \in Syms : WaveletPush(sym)
    \/ WaveletFinish
    \/ \E kind \in {"BitVector", "Rank9"} : WaveletFromIter(kind, TestSyms)
    \/ WaveletAccessQ
    \/ WaveletRankQ
    \/ WaveletSymbolEqQ
    \/ WaveletSelectAnyQ
    \/ Return

SpecWavelet == Init /\ [][NextWavelet]_vars

\* number of occurrences of sym among the first i symbols of S
OccurrencesIn(S, sym, i) == Cardinality({k \in 1..i : S[k] = sym})

\* C15: on a wavelet tree over a non-empty S, access(i) for 0 <= i < |S|,
\* with a PrimBuilder as symbol builder, is S[i].
C15_AccessRoundTrip ==
    (IsQuery("access", "Wavelet") /\ last.n < Len(wsyms))
        => last.out = Ok(wsyms[last.n + 1])

\* C16: on a wavelet tree over Rank9 nodes, rank(s, i) for 0 <= i <= |S|
\* (S empty included) completes and is the number of s in S[0..i).
C16_WaveletRankIsNaive ==
    (IsQuery("rank", "Wavelet") /\ wkind = "Rank9" /\ last.n <= Len(wsyms))
        => last.out = Ok(OccurrencesIn(wsyms, last.el, last.n))

\* C17: on a wavelet tree over BitVector nodes, select(s, n) for
\* 1 <= n <= (occurrences of s in S) is p + 1, p the 0-based position of the
\* n-th s in S; over [4, 6, 2, 7, 5, 1, 6, 2], select(2, 2) = 8.
C17_WaveletSelectIsNth ==
    (/\ IsQuery("select", "Wavelet") /\ wkind = "BitVector"
     /\ 1 <= last.n /\ last.n <= Occurrences(wsyms, last.el))
        => /\ last.out.ok
           /\ last.out.val \in 1..Len(wsyms)
           /\ wsyms[last.out.val] = last.el
           /\ OccurrencesIn(wsyms, last.el, last.out.val) = last.n

\* C18: symbol_eq(sym, i) for 0 <= i < |S| is true exactly when S[i] = sym;
\* over [4, 6, 2, 7, 5, 1, 6, 2], symbol_eq(7, 3) is true and symbol_eq(7, 2)
\* is false.
C18_SymbolEq ==
    (IsQuery("symbol_eq", "Wavelet") /\ last.n < Len(wsyms))
        => last.out = Ok(wsyms[last.n + 1] = last.el)

\* C20: select(sym, n) with n >= 1 above the number of occurrences of sym in S
\* fails, whether sym occurs or not.
C20_WaveletSelectFails ==
    (IsQuery("select", "Wavelet") /\ last.n >= 1
       /\ last.n > Occurrences(wsyms, last.el))
        => ~last.out.ok


\* ------------------------------------------------------------------------
\* Trees and cursors: a tree grown from a singleton through a MutCursor, as
\* the wavelet builder grows its tree, and walked with either cursor
\* ------------------------------------------------------------------------
MaxDepth == 2

Branches == {"Left", "Right"}

\* *cursor.branch_mut(branch) = Some(box Tree::singleton(value)) on an empty
\* branch of the node at path
Tree_grow(tree, path, branch, value) ==
    IF Tree_has_branch(tree, path, branch) THEN tree
    ELSE tree @@ (Append(path, branch) :> value)

MutCursor_new == [node |-> <<>>]

MutCursor_back_to_root(c) == [node |-> <<>>]

\* MutCursor::step taking the Left child whatever the branch
MutCursor_step_left(tree, c, branch) ==
    IF Tree_has_branch(tree, c.node, "Left")
    THEN Ok([node |-> Append(c.node, "Left")])
    ELSE Panic

MutCursor_step(tree, c, branch) ==
    IF Tree_has_branch(tree, c.node, branch)
    THEN Ok([node |-> Append(c.node, branch)])
    ELSE Panic

AnyCursor_new(kind) ==
    IF kind = "MutCursor" THEN MutCursor_new ELSE Cursor_new

AnyCursor_back_to_root(kind, c) ==
    IF kind = "MutCursor" THEN MutCursor_back_to_root(c)
    ELSE Cursor_back_to_root(c)

AnyCursor_step(kind, tree, c, branch) ==
    IF kind = "MutCursor" THEN MutCursor_step(tree, c, branch)
    ELSE Cursor_step(tree, c, branch)

\* Tree::singleton
TreeNew ==
    /\ NoBits /\ NoWavelet
    /\ DOMAIN ctree = {}
    /\ last.op = "none"
    /\ ctree' = Tree_singleton(0)
    /\ UNCHANGED <<dvars, wvars, cursor, walked, last>>

\* Cursor::new and MutCursor::new
CursorNew(kind) ==
    /\ DOMAIN ctree # {}
    /\ cursor.kind = "none"
    /\ last.op = "none"
    /\ cursor' = [kind |-> kind, node |-> AnyCursor_new(kind).node]
    /\ walked' = <<>>
    /\ UNCHANGED <<dvars, wvars, ctree, last>>

\* step: a panic leaves the cursor where it was
CursorStep(branch) ==
    /\ cursor.kind # "none"
    /\ last.op = "none"
    /\ LET r == AnyCursor_step(cursor.kind, ctree, [node |-> cursor.node], branch)
       IN /\ cursor' = IF r.ok THEN [cursor EXCEPT !.node = r.val.node]
                       ELSE cursor
          /\ walked' = IF r.ok THEN Append(walked, branch) ELSE walked
          /\ last' = [op |-> "step", kind |-> cursor.kind, el |-> branch,
                      x |-> cursor.node, n |-> 0,
                      out |-> IF r.ok THEN Ok(0) ELSE Panic]
    /\ UNCHANGED <<dvars, wvars, ctree>>

CursorBackToRoot ==
    /\ cursor.kind # "none"
    /\ last.op = "none"
    /\ cursor' = [cursor EXCEPT !.node =
                     AnyCursor_back_to_root(cursor.kind, [node |-> @]).node]
    /\ walked' = <<>>
    /\ last' = [op |-> "back_to_root", kind |-> cursor.kind, el |-> FALSE,
                x |-> cursor.node, n |-> 0, out |-> Ok(0)]
    /\ UNCHANGED <<dvars, wvars, ctree>>

\* through DerefMut: a child put on an empty branch of the current node
CursorGrow(branch) ==
    /\ cursor.kind = "MutCursor"
    /\ last.op = "none"
    /\ Len(cursor.node) < MaxDepth
    /\ ~Tree_has_branch(ctree, cursor.node, branch)
    /\ ctree' = Tree_grow(ctree, cursor.node, branch, 0)
    /\ UNCHANGED <<dvars, wvars, cursor, walked, last>>

\* MutCursor::finish gives the tree back
CursorFinish ==
    /\ cursor.kind = "MutCursor"
    /\ last.op = "none"
    /\ cursor' = [kind |-> "none", node |-> <<>>]
    /\ walked' = <<>>
    /\ UNCHANGED <<dvars, wvars, ctree, last>>

NextCursor ==
    \/ TreeNew
    \/ \E kind \in {"Cursor", "MutCursor"} : CursorNew(kind)
    \/ \E branch \in Branches : CursorStep(branch)
    \/ CursorBackToRoot
    \/ \E branch \in Branches : CursorGrow(branch)
    \/ CursorFinish
    \/ Return

SpecCursor == Init /\ [][NextCursor]_vars

\* C21: with either cursor, step(branch) moves to the named child of the
\* current node when it exists and panics when it is absent; after the
\* successful steps b1..bk since new() or the last back_to_root() the cursor
\* is on the node at path b1..bk; back_to_root() puts it on the root.
C21_CursorFollowsPath ==
    /\ cursor.kind # "none" =>
          /\ cursor.node = walked
          /\ cursor.node \in DOMAIN ctree
    /\ last.op = "step" =>
          /\ last.out.ok <=> Append(last.x, last.el) \in DOMAIN ctree
          /\ last.out.ok => cursor.node = Append(last.x, last.el)
    /\ last.op = "back_to_root" => cursor.node = <<>>

\* a MutCursor two steps down, the second one into a Right child
C21_Witness ==
    /\ cursor.kind = "MutCursor"
    /\ last.op = "step" /\ last.out.ok
    /\ cursor.node = <<"Left", "Right">>


\* ------------------------------------------------------------------------
\* The counts of a Rank9
\* ------------------------------------------------------------------------
\* number of 1-bits in the words [lo, hi) of a buffer, words past its end
\* counting as zero
OnesInWords(buffer, lo, hi) == CountRange(buffer, TRUE, lo + 1, Min(hi, Len(buffer)))

\* the 9-bit field at offset 9 * (k - 1) of word_ranks
Field9(word_ranks, k) == ToNat(Shr(word_ranks, 9 * (k - 1)) \cap Mask9)

\* C22: after m words have been pushed into the CountsBuilder and finish was
\* called, counts has ceil(m / 8) entries; block_rank of block j is the number
\* of 1-bits in the words [0, 8j) and the k-th 9-bit field of its word_ranks
\* is the number of 1-bits in the words [8j, 8j + k), for k in 1..7; so block
\* ranks do not decrease across blocks, nor the fields in k.
C22_CountsLayout ==
    (built /\ last.op = "none") =>
       LET m == Len(rank9.buffer)
           counts == rank9.counts
       IN /\ Len(counts) = (m + 7) \div 8
          /\ \A j \in 0..(Len(counts) - 1) :
                /\ counts[j + 1].block_rank = OnesInWords(rank9.buffer, 0, 8 * j)
                /\ \A k \in 1..7 :
                      Field9(counts[j + 1].word_ranks, k)
                         = OnesInWords(rank9.buffer, 8 * j, 8 * j + k)
                /\ \A k \in 1..6 :
                      Field9(counts[j + 1].word_ranks, k)
                         <= Field9(counts[j + 1].word_ranks, k + 1)
                /\ j > 0 => counts[j].block_rank <= counts[j + 1].block_rank

\* nine words of ones: a full block and a padded one
C22_Witness ==
    /\ built /\ last.op = "none"
    /\ Len(rank9.buffer) = 9
    /\ Len(rank9.counts) = 2
    /\ rank9.counts[2].block_rank = 512
    /\ Field9(rank9.counts[2].word_ranks, 7) = 64


\* C23: the branchless second-level lookup of rank1 is exact on every counts
\* record the builder produces: it is 0 for block_word = 0 and
\* word_rank(true, block_word) for block_word in 1..7, so the assert_eq of
\* rank1 never fails, and bit 63 of word_ranks is 0.
C23_BranchlessLookup ==
    /\ (built /\ last.op = "none") =>
          \A j \in 1..Len(rank9.counts) :
             /\ 63 \notin rank9.counts[j].word_ranks
             /\ \A block_word \in 0..7 :
                   rank1_word_rank(rank9.counts[j], block_word)
                      = IF block_word = 0 THEN 0
                        ELSE Counts_word_rank(rank9.counts[j], TRUE, block_word)
    /\ (IsQuery("rank", "Rank9") /\ last.n \div 512 < Len(rank9.counts)) =>
          LET counts == rank9.counts[(last.n \div 512) + 1]
              block_word == (last.n \div 64) % 8
          IN rank1_word_rank(counts, block_word)
                = IF block_word = 0 THEN 0
                  ELSE Counts_word_rank(counts, TRUE, block_word)

\* rank1 has answered in the word 3 of the second block, three words of ones
\* before it in the block
C23_Witness ==
    /\ IsQuery("rank", "Rank9") /\ last.el /\ last.out.ok
    /\ (last.n \div 64) = 11
    /\ Len(rank9.counts) >= 2
    /\ rank1_word_rank(rank9.counts[2], 3) = 192


\* ------------------------------------------------------------------------
\* Block selection on a Rank9
\* ------------------------------------------------------------------------
\* select_block on the Rank9
Rank9SelectBlock(bit, n) ==
    /\ built
    /\ last.op = "none"
    /\ last' = [op |-> "select_block", kind |-> "Rank9", el |-> bit, x |-> Zero,
                n |-> n, out |-> select_block(rank9, bit, n)]
    /\ UNCHANGED <<dvars, wvars, cvars>>

Rank9SelectBlockQ ==
    /\ last.op = "none"
    /\ \E bit \in BOOLEAN :
          \E n \in SelectArgs(CountIn(rank9.buffer, bit, rank9.bits)) \ {0} :
             Rank9SelectBlock(bit, n)

NextBlocks ==
    \/ \E bit \in BOOLEAN : Push(bit)
    \/ Finish
    \/ \E v \in Vectors : FromVec(v)
    \/ Rank9SelectBlockQ
    \/ Return

SpecBlocks == Init /\ [][NextBlocks]_vars

\* number of bit-valued bits of s before block k, blocks past the end empty
BeforeBlock(s, bit, k) == CountIn(s.buffer, bit, Min(512 * k, s.bits))

\* C24: for n in 1..(number of b-valued bits), select_block(b, n) is the one
\* block k with  (b-valued bits before block k) < n <= (b-valued bits up to
\* the end of block k); when blocks of equal cumulative rank n follow one
\* another, that is the block before the first of them.
C24_SelectBlockIsBlock ==
    (IsQuery("select_block", "Rank9")
       /\ last.n \in 1..CountIn(rank9.buffer, last.el, rank9.bits)) =>
       /\ last.out.ok
       /\ last.out.val \in 0..(Len(rank9.counts) - 1)
       /\ BeforeBlock(rank9, last.el, last.out.val) < last.n
       /\ last.n <= BeforeBlock(rank9, last.el, last.out.val + 1)

\* the search for the 512th 1-bit met blocks 1 and 2, both of rank 512, and
\* the answer is block 0
C24_Witness ==
    /\ IsQuery("select_block", "Rank9") /\ last.el /\ last.n = 512
    /\ Len(rank9.counts) = 3
    /\ rank9.counts[2].block_rank = 512
    /\ rank9.counts[3].block_rank = 512
    /\ last.out = Ok(0)


\* ------------------------------------------------------------------------
\* Batched block selection on a Rank9
\* ------------------------------------------------------------------------
MaxBatch == 3

\* the counts asked for in a batch: the first two, those around a multiple
\* of the block size, and the last
BatchCounts(total) ==
    {n \in 1..total : n <= 2 \/ n % 512 \in {0, 1} \/ n = total}

IsSorted(ns) == \A i \in 1..(Len(ns) - 1) : ns[i] <= ns[i + 1]

Batches(total) ==
    {ns \in SeqsUpTo(BatchCounts(total), MaxBatch) : ns # <<>> /\ IsSorted(ns)}

\* select_all_blocks on the Rank9, in either build
Rank9SelectAllBlocks(build, bit, ns) ==
    /\ built
    /\ last.op = "none"
    /\ last' = [op |-> "select_all_blocks", kind |-> build, el |-> bit,
                x |-> ns, n |-> 0,
                out |-> select_all_blocks(build, rank9, bit, ns)]
    /\ UNCHANGED <<dvars, wvars, cvars>>

Rank9SelectAllBlocksQ ==
    /\ last.op = "none"
    /\ \E build \in {"checked", "wrapping"} : \E bit \in BOOLEAN :
          \E ns \in Batches(CountIn(rank9.buffer, bit, rank9.bits)) :
             Rank9SelectAllBlocks(build, bit, ns)

NextBatch ==
    \/ \E bit \in BOOLEAN : Push(bit)
    \/ Finish
    \/ \E v \in Vectors : FromVec(v)
    \/ Rank9SelectAllBlocksQ
    \/ Return

SpecBatch == Init /\ [][NextBatch]_vars

\* C25: for every non-empty non-decreasing list ns of valid counts,
\* select_all_blocks(b, ns) completes and returns a list as long as ns whose
\* i-th element is select_block(b, ns[i]).
C25_BatchAgrees ==
    last.op = "select_all_blocks" =>
       /\ last.out.ok
       /\ Len(last.out.val) = Len(last.x)
       /\ \A i \in 1..Len(last.x) :
             Ok(last.out.val[i]) = select_block(rank9, last.el, last.x[i])


\* ------------------------------------------------------------------------
\* binary_search on a sorted vector, as the tests call it
\* ------------------------------------------------------------------------
\* the elements of the test vector [0, 3, 5, 8] and the targets of the test
SearchElems == {0, 3, 5, 8}
SearchTargets == {0, 3, 4, 5, 8, 9}

SortedVecs == {xs \in SeqsUpTo(SearchElems, MaxLen + 1) : IsSorted(xs)}

\* the comparator |i| xs[*i].cmp(&s), defined on the indices of xs
VecCmp(xs, s) == [i \in 0..(Len(xs) - 1) |-> Ordering(xs[i + 1], s)]

\* binary_search(|i| xs[*i].cmp(&s), lower, upper)
BinarySearch(xs, s, lower, upper) ==
    /\ NoBits /\ NoWavelet
    /\ last.op = "none"
    /\ LET res == binary_search(VecCmp(xs, s), lower, upper) IN
       last' = [op |-> "binary_search", kind |-> res.tag, el |-> <<lower, upper>>,
                x |-> xs, n |-> s,
                out |-> IF res.tag = "Panic" THEN Panic ELSE Ok(res.idx)]
    /\ UNCHANGED <<dvars, wvars, cvars>>

BinarySearchQ ==
    \E xs \in SortedVecs : \E s \in SearchTargets :
       \E lower \in 0..Len(xs) : \E upper \in lower..Len(xs) :
          BinarySearch(xs, s, lower, upper)

NextSearch ==
    \/ BinarySearchQ
    \/ Return

SpecSearch == Init /\ [][NextSearch]_vars

\* C26: binary_search over [lower, upper) of a non-decreasing xs hands cmp
\* only indices of [lower, upper) and returns; Ok(i) only for an i of the
\* range with xs[i] the target, and always when the target is in the range;
\* otherwise Err(i), lower <= i <= upper, everything of xs[lower..i) below the
\* target and everything of xs[i..upper) above it.
C26_BinarySearch ==
    last.op = "binary_search" =>
       LET xs == last.x
           s == last.n
           lower == last.el[1]
           upper == last.el[2]
           range == lower..(upper - 1)
       IN /\ binary_search_probes(VecCmp(xs, s), lower, lower, upper) \subseteq range
          /\ last.kind \in {"Ok", "Err"}
          /\ last.kind = "Ok" =>
                last.out.val \in range /\ xs[last.out.val + 1] = s
          /\ (\E i \in range : xs[i + 1] = s) => last.kind = "Ok"
          /\ last.kind = "Err" =>
                /\ last.out.val \in lower..upper
                /\ \A j \in lower..(last.out.val - 1) : xs[j + 1] < s
                /\ \A j \in last.out.val..(upper - 1) : xs[j + 1] > s


\* ------------------------------------------------------------------------
\* The shape of a wavelet tree
\* ------------------------------------------------------------------------
\* number of bit-valued bits of the bit vector at node p of the wavelet tree
NodeCount(p, bit) == CountIn(wavelet[p].buffer, bit, wavelet[p].bits)

HasChild(p) ==
    Tree_has_branch(wavelet, p, "Left") \/ Tree_has_branch(wavelet, p, "Right")

\* the child of p on the branch of `bit` is there exactly when p holds such a
\* bit
ChildIffCount(p, bit) ==
    Tree_has_branch(wavelet, p, bit_to_branch(bit)) <=> NodeCount(p, bit) > 0

\* the child of p on the branch of `bit`, when there, is as long as p holds
\* such bits
ChildLength(p, bit) ==
    Tree_has_branch(wavelet, p, bit_to_branch(bit)) =>
       wavelet[Append(p, bit_to_branch(bit))].bits = NodeCount(p, bit)

\* C27 (as stated): in a built wavelet tree, at every node with a child, the
\* left child holds rank0(B, L) bits and the right child rank1(B, L) bits,
\* and a child is absent exactly when its count is 0, at every depth, the
\* nodes at depth w - 1 included.
C27_AsStated ==
    (wbuilt /\ last.op = "none") =>
       \A p \in DOMAIN wavelet :
          HasChild(p) =>
             \A bit \in BOOLEAN : ChildLength(p, bit) /\ ChildIffCount(p, bit)

\* C27 (amended): the same at every node of depth below w - 1; a node at
\* depth w - 1 has a child exactly for the bit values it holds, and that
\* child, at depth w, holds an empty bit vector and has no child.
C27_ChildLengths ==
    (wbuilt /\ last.op = "none") =>
       \A p \in DOMAIN wavelet :
          /\ Len(p) <= SymWidth
          /\ (HasChild(p) /\ Len(p) < SymWidth - 1) =>
                \A bit \in BOOLEAN : ChildLength(p, bit) /\ ChildIffCount(p, bit)
          /\ Len(p) = SymWidth - 1 =>
                \A bit \in BOOLEAN : ChildIffCount(p, bit)
          /\ Len(p) = SymWidth => wavelet[p].bits = 0 /\ ~HasChild(p)

\* two symbols are in: the node at depth w - 1 of their path holds two bits
\* and its child none
C27_Witness ==
    /\ wbuilt /\ Len(wsyms) = 2
    /\ \E p \in DOMAIN wavelet :
          /\ Len(p) = SymWidth - 1
          /\ wavelet[p].bits = 2
          /\ Tree_has_branch(wavelet, p, "Left")
          /\ wavelet[Append(p, "Left")].bits = 0


\* ------------------------------------------------------------------------
\* The effect of one push on the wavelet builder
\* ------------------------------------------------------------------------
\* the bits a node builder holds, in the order they were pushed: the full
\* words handed on, then the word being filled
BuilderBits(b) ==
    LET words == Append(b.builder.buffer, b.accum)
    IN [i \in 1..b.size |-> BitAt(words, i - 1)]

\* the node at depth d on the path of the iterated bits
PathTo(bits, d) == [i \in 1..d |-> bit_to_branch(bits[i])]

\* what a push of sym does to the tree of builders
PushEffect(sym) ==
    LET bits == bit_iter(sym)
        w == Len(bits)
        on_path == {PathTo(bits, d) : d \in 0..w}
        pushed_to == {PathTo(bits, d) : d \in 0..(w - 1)}
    IN /\ \A d \in 0..(w - 1) :
             LET p == PathTo(bits, d) IN
             /\ p \in DOMAIN wbuilder'
             /\ BuilderBits(wbuilder'[p])
                   = (IF p \in DOMAIN wbuilder THEN BuilderBits(wbuilder[p])
                      ELSE <<>>) \o <<bits[d + 1]>>
       /\ DOMAIN wbuilder' = DOMAIN wbuilder \cup on_path
       /\ PathTo(bits, w) \notin DOMAIN wbuilder =>
             wbuilder'[PathTo(bits, w)] = new_bitvector(wkind)
       /\ \A p \in DOMAIN wbuilder \ pushed_to : wbuilder'[p] = wbuilder[p]
       /\ Len(BuilderBits(wbuilder'[<<>>])) = Len(wsyms')

\* C29: pushing one symbol of width w into the wavelet builder appends one
\* bit, the symbol's d-th iterated bit, to the builder of the node at depth d
\* of the symbol's path, for d in 0..w-1; it creates only the nodes missing on
\* that path, each with a fresh builder, and leaves every other builder and
\* the rest of the shape as they were; after k pushes the root holds k bits.
C29_PushFrame ==
    [][(~wbuilt /\ ~wbuilt' /\ wsyms' # wsyms)
          => PushEffect(wsyms'[Len(wsyms')])]_vars

\* two symbols are in and the second went down the path the first made
C29_Witness ==
    /\ wkind # "none" /\ ~wbuilt
    /\ Len(wsyms) = 2
    /\ BuilderBits(wbuilder[<<>>]) = <<FALSE, FALSE>>
    /\ Cardinality(DOMAIN wbuilder) = SymWidth + 1

====
